---- MODULE Spec2Model ----
(***************************************************************************)
(* A model of minitar (src/minitar.c, src/minitar_main.c): the ustar       *)
(* header codec, the block-aligned archive writer, and the create /        *)
(* append / list / extract operations, driven either directly or through   *)
(* the command-line program.  Files are sequences of bytes (0..255); the   *)
(* archive is the byte sequence stored under ArchiveName.                  *)
(***************************************************************************)
EXTENDS Integers, Sequences, FiniteSets, TLC

\* ------------------------------------------------------------- constants
BLOCK_SIZE == 512
NUM_TRAILING_BLOCKS == 2
REGTYPE == 48
SEEK_CUR == 1

\* "ustar"
MAGIC == <<117, 115, 116, 97, 114>>

\* The archive may grow to at most MaxBlocks blocks (guard of the append calls).
MaxBlocks == 8

\* At most MaxFaults times the environment interferes: a system call fails
\* (an I/O error, a full disk, a missing identity), or the user removes an
\* input file between two runs.
MaxFaults == 1

\* ------------------------------------------------------------ byte strings
Min(a, b) == IF a < b THEN a ELSE b

Zeros(n) == [i \in 1..n |-> 0]

IsZero(s) == \A i \in 1..Len(s) : s[i] = 0

\* ceil(n / BLOCK_SIZE)
BlocksFor(n) == (n + BLOCK_SIZE - 1) \div BLOCK_SIZE

\* The bytes of a C string stored in buf: everything before the first NUL.
RECURSIVE CStrLen(_, _)
CStrLen(buf, i) ==
    IF i > Len(buf) \/ buf[i] = 0 THEN i - 1 ELSE CStrLen(buf, i + 1)

CStr(buf) == SubSeq(buf, 1, CStrLen(buf, 1))

\* strncpy(dst, src, n) into a field of n bytes: at most n bytes of src,
\* the rest of the field NUL.
strncpy(src, n) ==
    [i \in 1..n |-> IF i <= Len(src) THEN src[i] ELSE 0]

\* An `unsigned` (32 bits) as two 16-bit halves; n may be negative, and is
\* then taken modulo 2^32 as the conversion to unsigned does.
U32(n) == [hi |-> (n \div 65536) % 65536, lo |-> n % 65536]

Bit(u, i) ==
    IF i < 16 THEN (u.lo \div (2 ^ i)) % 2
    ELSE IF i < 32 THEN (u.hi \div (2 ^ (i - 16))) % 2
    ELSE 0

\* The k-th octal digit of u, the least significant being digit 0.
OctDigitAt(u, k) == Bit(u, 3 * k) + 2 * Bit(u, 3 * k + 1) + 4 * Bit(u, 3 * k + 2)

\* The octal digits of u without leading zeros, most significant first, as
\* ASCII bytes.
OctDigits(u) ==
    LET all  == [i \in 1..11 |-> 48 + OctDigitAt(u, 11 - i)]
        sig  == {i \in 1..11 : all[i] # 48} \cup {11}
        from == CHOOSE i \in sig : \A j \in sig : i <= j
    IN  SubSeq(all, from, 11)

\* printf's "%0<w>o" of the unsigned value of n: the octal digits left-padded
\* with '0' to w characters (more when the number needs more).
FormatOctal(n, w) ==
    LET d == OctDigits(U32(n))
    IN  IF Len(d) >= w THEN d ELSE [i \in 1..(w - Len(d)) |-> 48] \o d

\* snprintf(field, cap, "%0<w>o", n) into a field of cap bytes whose bytes
\* were `old`: at most cap-1 characters, then a NUL; the rest keeps `old`.
snprintf_octal(old, cap, w, n) ==
    LET s == FormatOctal(n, w)
        k == Min(Len(s), cap - 1)
    IN  [i \in 1..Len(old) |->
            IF i <= k THEN s[i] ELSE IF i = k + 1 THEN 0 ELSE old[i]]

\* ------------------------------------------------------------ tar header
\* Field widths of tar_header, in the order of the struct (POSIX ustar).
NAME_LEN == 100
FieldWidth == [name |-> NAME_LEN, mode |-> 8, uid |-> 8, gid |-> 8, size |-> 12,
               mtime |-> 12, chksum |-> 8, typeflag |-> 1, linkname |-> 100,
               magic |-> 6, version |-> 2, uname |-> 32, gname |-> 32,
               devmajor |-> 8, devminor |-> 8, prefix |-> 155, padding |-> 12]

FieldOrder == <<"name", "mode", "uid", "gid", "size", "mtime", "chksum",
                "typeflag", "linkname", "magic", "version", "uname", "gname",
                "devmajor", "devminor", "prefix", "padding">>

RECURSIVE FieldOffsetFrom(_, _)
FieldOffsetFrom(f, k) ==
    IF FieldOrder[k] = f THEN 0
    ELSE FieldWidth[FieldOrder[k]] + FieldOffsetFrom(f, k + 1)

\* Number of bytes that precede field f in the block.
FieldOffset(f) == FieldOffsetFrom(f, 1)

\* The bytes of field f of the header block h.
Field(h, f) ==
    LET off == FieldOffset(f)
    IN  SubSeq(h, off + 1, off + FieldWidth[f])

\* The header block h with field f replaced by the bytes v.
SetField(h, f, v) ==
    LET off == FieldOffset(f)
        end == off + FieldWidth[f]
    IN  [i \in 1..Len(h) |-> IF i > off /\ i <= end THEN v[i - off] ELSE h[i]]

\* A byte read through a `char *`: the build decides whether char is signed.
CharValue(b, charSigned) == IF charSigned /\ b >= 128 THEN b - 256 ELSE b

\* The sum of the bytes h[lo..hi] as the loop `sum += bytes[i]` adds them
\* (the additions are grouped in halves; the total is the same).
RECURSIVE SumChars(_, _, _, _)
SumChars(h, lo, hi, charSigned) ==
    IF lo > hi THEN 0
    ELSE IF lo = hi THEN CharValue(h[lo], charSigned)
    ELSE LET mid == (lo + hi) \div 2
         IN  SumChars(h, lo, mid, charSigned) + SumChars(h, mid + 1, hi, charSigned)

\* compute_checksum: blank the checksum field, add up the bytes into an
\* `unsigned`, print the sum as "%07o" into the 8-byte field.
compute_checksum(header, charSigned) ==
    LET blank == SetField(header, "chksum", [i \in 1..8 |-> 32])
        sum   == SumChars(blank, 1, Len(blank), charSigned)
    IN  SetField(blank, "chksum",
                 snprintf_octal(Field(blank, "chksum"), 8, 7, sum))

\* ------------------------------------------------------------ environment
\* File names are byte strings.
ArchiveName == <<116, 46, 116, 97, 114>>          \* "t.tar"
FileA == <<97, 46, 116, 120, 116>>                \* "a.txt"
FileB == <<98, 46, 116, 120, 116>>                \* "b.txt"
FileC == <<99, 46, 116, 120, 116>>                \* "c.txt"
FileE == <<195, 169, 46, 116, 120, 116>>          \* "\303\251.txt" (UTF-8)

InputNames == {FileA, FileB, FileC}
Paths == InputNames \cup {ArchiveName}

NoFile == [exists |-> FALSE, data |-> <<>>, mode |-> 0, uid |-> 0, gid |-> 0,
           mtime |-> 0]

MkFile(d, m) == [exists |-> TRUE, data |-> d, mode |-> m, uid |-> 1000,
                 gid |-> 1000, mtime |-> 1700000000]

\* The input files on disk at the start: 5, 0 and 600 bytes.
InitialFiles ==
    [p \in Paths |->
        CASE p = FileA -> MkFile(<<104, 101, 108, 108, 111>>, 420)      \* 0644
          [] p = FileB -> MkFile(<<>>, 384)                             \* 0600
          [] p = FileC -> MkFile([i \in 1..600 |-> (i * 7) % 256], 493) \* 0755
          [] OTHER -> NoFile]

\* The system identity database and the device of the file system.
UserName == <<117, 115, 101, 114>>                \* "user"
StDev == [major |-> 8, minor |-> 1]

\* The argument lists the operations are invoked with.
FileLists == {<<>>, <<FileA, FileB>>, <<FileC>>}

\* ------------------------------------------------------------ file list
\* file_list_add: the list is an ordered sequence, the name is put last.
file_list_add(list, name) == Append(list, name)

\* ------------------------------------------------------------ fill_tar_header
\* What stat() reports for the file f.
Stat(f) == [mode |-> f.mode, uid |-> f.uid, gid |-> f.gid, size |-> Len(f.data),
            mtime |-> f.mtime]

\* The header block fill_tar_header leaves in *header when stat and both
\* identity lookups succeed; st is the stat result of the file.
fill_tar_header(file_name, st, pw_name, gr_name, charSigned) ==
    LET z8  == Zeros(8)
        z12 == Zeros(12)
        h0  == Zeros(BLOCK_SIZE)
        h1  == SetField(h0, "name", strncpy(file_name, NAME_LEN))
        h2  == SetField(h1, "mode", snprintf_octal(z8, 8, 7, st.mode % 4096))
        h3  == SetField(h2, "uid", snprintf_octal(z8, 8, 7, st.uid))
        h4  == SetField(h3, "uname", strncpy(pw_name, 32))
        h5  == SetField(h4, "gid", snprintf_octal(z8, 8, 7, st.gid))
        h6  == SetField(h5, "gname", strncpy(gr_name, 32))
        h7  == SetField(h6, "size",
                        snprintf_octal(z12, 12, 11, st.size))
        h8  == SetField(h7, "mtime",
                        snprintf_octal(z12, 12, 11, st.mtime))
        h9  == SetField(h8, "typeflag", <<REGTYPE>>)
        h10 == SetField(h9, "magic", strncpy(MAGIC, 6))
        h11 == SetField(h10, "version", <<48, 48>>)
        h12 == SetField(h11, "devmajor", snprintf_octal(z8, 8, 7, StDev.major))
        h13 == SetField(h12, "devminor", snprintf_octal(z8, 8, 7, StDev.minor))
    IN  compute_checksum(h13, charSigned)

\* ------------------------------------------------------------ block I/O
\* The block written for a chunk of bytes_read bytes: the short chunk is
\* padded with zero bytes to a full block.
PadBlock(chunk) ==
    [i \in 1..BLOCK_SIZE |-> IF i <= Len(chunk) THEN chunk[i] ELSE 0]

\* A write_end_blocks that writes one zero block.
EndBlocks_one == Zeros(BLOCK_SIZE)

\* The bytes write_end_blocks writes when both writes succeed.
EndBlocks == Zeros(NUM_TRAILING_BLOCKS * BLOCK_SIZE)

\* The size remove_trailing_bytes truncates a file of file_size bytes to.
TruncatedSize(file_size, nbytes) ==
    IF nbytes > file_size THEN 0 ELSE file_size - nbytes

\* An existence check that passes for every path.
CanOpenRead_always(f, path) == TRUE

\* fopen(path, "rb"/"r") succeeds exactly when the file exists.
CanOpenRead(f, path) == f[path].exists

\* fseek(fp, offset, whence): -1 (EINVAL) unless whence is SEEK_SET, SEEK_CUR
\* or SEEK_END.
fseek_result(offset, whence) == IF whence \in {0, 1, 2} THEN 0 ELSE -1

\* ------------------------------------------------------------ state
VARIABLES
    fs,          \* the file system: path -> file (exists, data, mode, ...)
    handles,     \* the open FILE handles of the process: [who, path]
    pc,          \* the position of the process
    caller,      \* "api": a function of minitar.h called directly; "main": the CLI
    argv,        \* the command line of the CLI run
    op,          \* the library function running (or last run) and its file list
    ptr,         \* write_files: index of the current node of the file list
    header,      \* write_files: the header block filled for the current file
    inOff,       \* write_files: bytes of the input file read so far
    ret,         \* the value the library function returned (0 until then)
    listed,      \* get_archive_file_list: the names added to `files`
    exitCode,    \* the value main returned (0 until then)
    charSigned,  \* whether `char` is signed in this build
    mut,         \* history: the last create/append call, its file list and
                 \*          result, and whether it has returned
    good,        \* history: the archive is the result of a create and appends
                 \*          that all returned 0
    hdrAt,       \* history: the block indices at which headers were written
    pre,         \* history: the archive bytes when the last append was called
    stepFailed,  \* history: a stat/lookup/open/read/write/close step of the
                 \*          running operation failed
    faults,      \* the number of times the environment interfered so far
    hdrIn,       \* header codec run: the file name and stat data given
    hdrOut       \* header codec run: the header produced

vars == <<fs, handles, pc, caller, argv, op, ptr, header, inOff, ret, listed,
          exitCode, charSigned, mut, good, hdrAt, pre, stepFailed, faults,
          hdrIn, hdrOut>>

\* What no step of the program changes.
codec == <<hdrIn, hdrOut>>

\* A system call fails for a reason of the environment / no call fails.
Fault == faults < MaxFaults /\ faults' = faults + 1
NoFault == UNCHANGED faults

NoOp == [fn |-> "none", files |-> <<>>]
NoArgv == [argc4 |-> FALSE, f |-> FALSE, opt |-> "", files |-> <<>>]

Archive == fs[ArchiveName]

WriteArchive(bytes) ==
    fs' = [fs EXCEPT ![ArchiveName].data = @ \o bytes]

Open(who, path) == handles' = handles \cup {[who |-> who, path |-> path]}

CloseAll(whos) == handles' = {h \in handles : h.who \notin whos}

OnArchive == {h \in handles : h.path = ArchiveName}

\* The command lines: too few arguments, no -f, and every operation letter.
Argvs ==
    {[argc4 |-> FALSE, f |-> FALSE, opt |-> "-c", files |-> <<>>],
     [argc4 |-> TRUE, f |-> FALSE, opt |-> "-c", files |-> <<FileA, FileB>>]}
    \cup {[argc4 |-> TRUE, f |-> TRUE, opt |-> o, files |-> fl] :
              o \in {"-c", "-a"}, fl \in FileLists}
    \cup {[argc4 |-> TRUE, f |-> TRUE, opt |-> o, files |-> <<>>] :
              o \in {"-t", "-u", "-x", "-z"}}

\* The bytes the entries of the file list fl add to the archive.
EntryBytes(f, fl) ==
    LET n(i) == IF f[fl[i]].exists
                THEN BLOCK_SIZE * (1 + BlocksFor(Len(f[fl[i]].data))) ELSE 0
        RECURSIVE Sum(_)
        Sum(i) == IF i > Len(fl) THEN 0 ELSE n(i) + Sum(i + 1)
    IN  Sum(1)

\* The runs the model makes of append: onto an archive that does not exist, or
\* onto one that a create and appends returning 0 have left, and only while
\* the archive stays within MaxBlocks blocks.
FitsBound(fl) ==
    /\ Archive.exists => good
    /\ Len(Archive.data) + EntryBytes(fs, fl) <= MaxBlocks * BLOCK_SIZE

Init ==
    /\ fs = InitialFiles
    /\ handles = {}
    /\ pc = "done"
    /\ caller = "env"
    /\ argv = NoArgv
    /\ op = NoOp
    /\ ptr = 1
    /\ header = <<>>
    /\ inOff = 0
    /\ ret = 0
    /\ listed = <<>>
    /\ exitCode = 0
    /\ charSigned = TRUE      \* every byte of these runs is ASCII: the
                              \* signedness of char changes nothing here
    /\ mut = [fn |-> "none", files |-> <<>>, ret |-> 0, returned |-> FALSE]
    /\ good = FALSE
    /\ hdrAt = {}
    /\ pre = <<>>
    /\ stepFailed = FALSE
    /\ faults = 0
    /\ hdrIn = NoOp
    /\ hdrOut = <<>>

\* ------------------------------------------------------------ calls
\* The bookkeeping of a call of library function fn with file list fl.
Enter(fn, fl, first) ==
    /\ pc' = first
    /\ op' = [fn |-> fn, files |-> fl]
    /\ ptr' = 1
    /\ header' = <<>>
    /\ inOff' = 0
    /\ ret' = 0
    /\ listed' = <<>>
    /\ stepFailed' = FALSE
    /\ IF fn \in {"create", "append"}
       THEN /\ mut' = [fn |-> fn, files |-> fl, ret |-> 0, returned |-> FALSE]
            /\ pre' = IF fn = "append" THEN Archive.data ELSE <<>>
       ELSE UNCHANGED <<mut, pre>>

\* The library function returns r to its caller.
Return(r) ==
    /\ ret' = r
    /\ pc' = IF caller = "main" THEN "m_ret" ELSE "done"
    /\ IF op.fn \in {"create", "append"}
       THEN /\ mut' = [mut EXCEPT !.ret = r, !.returned = TRUE]
            /\ good' = IF op.fn = "create" THEN r = 0 ELSE good /\ r = 0
       ELSE UNCHANGED <<mut, good>>

\* A test program calls a function of minitar.h directly; every run is a new
\* process, which starts with no stream open.
CallCreate(fl) ==
    /\ pc = "done"
    /\ caller' = "api"
    /\ argv' = NoArgv
    /\ exitCode' = 0
    /\ Enter("create", fl, "cr_open")
    /\ handles' = {}
    /\ UNCHANGED <<fs, charSigned, good, hdrAt, faults, codec>>

CallAppend(fl) ==
    /\ pc = "done"
    /\ FitsBound(fl)
    /\ caller' = "api"
    /\ argv' = NoArgv
    /\ exitCode' = 0
    /\ Enter("append", fl, "ap_check")
    /\ handles' = {}
    /\ UNCHANGED <<fs, charSigned, good, hdrAt, faults, codec>>

CallList ==
    /\ pc = "done"
    /\ caller' = "api"
    /\ argv' = NoArgv
    /\ exitCode' = 0
    /\ Enter("list", <<>>, "ls_open")
    /\ handles' = {}
    /\ UNCHANGED <<fs, charSigned, good, hdrAt, faults, codec>>

CallExtract ==
    /\ pc = "done"
    /\ caller' = "api"
    /\ argv' = NoArgv
    /\ exitCode' = 0
    /\ Enter("extract", <<>>, "ex")
    /\ handles' = {}
    /\ UNCHANGED <<fs, charSigned, good, hdrAt, faults, codec>>

\* The user removes an input file between two runs.
Unlink(f) ==
    /\ pc = "done"
    /\ fs[f].exists
    /\ Fault
    /\ fs' = [fs EXCEPT ![f] = NoFile]
    /\ caller' = "env"
    /\ op' = NoOp
    /\ UNCHANGED <<handles, pc, argv, ptr, header, inOff, ret, listed, exitCode,
                   charSigned, mut, good, hdrAt, pre, stepFailed, codec>>

\* ------------------------------------------------------------ write_files
\* Every failure path of write_files closes the archive stream and returns 1,
\* and create_archive / append_files_to_archive then return 1 themselves.
FailWriteFiles ==
    /\ stepFailed' = TRUE
    /\ CloseAll({"archive_fp", "input_fp"})
    /\ Return(1)

\* while (NULL != ptr): the end of the list returns 0 to the caller.
WfTop ==
    /\ pc = "wf_top"
    /\ pc' = IF ptr > Len(op.files)
             THEN (IF op.fn = "create" THEN "cr_end" ELSE "ap_end")
             ELSE "wf_fill"
    /\ UNCHANGED <<fs, handles, caller, argv, op, ptr, header, inOff, ret, listed,
                   exitCode, charSigned, mut, good, hdrAt, pre, stepFailed, faults,
                   codec>>

\* fill_tar_header(&header, file_name): stat, then the two identity lookups.
WfFill ==
    /\ pc = "wf_fill"
    /\ LET file_name == op.files[ptr]
       IN  \/ /\ fs[file_name].exists
              /\ header' = fill_tar_header(file_name, Stat(fs[file_name]),
                                           UserName, UserName, charSigned)
              /\ pc' = "wf_hdr"
              /\ UNCHANGED <<fs, handles, ret, mut, good, stepFailed, faults>>
           \/ /\ ~fs[file_name].exists           \* stat fails
              /\ FailWriteFiles
              /\ UNCHANGED <<fs, header, faults>>
           \/ /\ fs[file_name].exists            \* getpwuid or getgrgid fails
              /\ Fault
              /\ FailWriteFiles
              /\ UNCHANGED <<fs, header>>
    /\ UNCHANGED <<caller, argv, op, ptr, inOff, listed, exitCode, charSigned,
                   hdrAt, pre, codec>>

\* fwrite(&header, sizeof(tar_header), 1, archive_fp)
WfHeader ==
    /\ pc = "wf_hdr"
    /\ \/ /\ WriteArchive(header)
          /\ hdrAt' = hdrAt \cup {Len(Archive.data) \div BLOCK_SIZE}
          /\ pc' = "wf_open"
          /\ UNCHANGED <<handles, ret, mut, good, stepFailed, faults>>
       \/ /\ Fault
          /\ FailWriteFiles
          /\ UNCHANGED <<fs, hdrAt>>
    /\ UNCHANGED <<caller, argv, op, ptr, header, inOff, listed, exitCode,
                   charSigned, pre, codec>>

\* fopen(file_name, "rb")
WfOpen ==
    /\ pc = "wf_open"
    /\ \/ /\ Open("input_fp", op.files[ptr])
          /\ inOff' = 0
          /\ pc' = "wf_copy"
          /\ UNCHANGED <<ret, mut, good, stepFailed, faults>>
       \/ /\ Fault
          /\ FailWriteFiles
          /\ UNCHANGED inOff
    /\ UNCHANGED <<fs, caller, argv, op, ptr, header, listed, exitCode,
                   charSigned, hdrAt, pre, codec>>

\* One turn of the copy loop: fread a block, pad it, fwrite it.  fread
\* returning 0 (end of file, or an error, which the code does not tell
\* apart) leaves the loop.
WfCopy ==
    /\ pc = "wf_copy"
    /\ LET data == fs[op.files[ptr]].data
           bytes_read == Min(BLOCK_SIZE, Len(data) - inOff)
       IN  \/ /\ bytes_read > 0                  \* a block is read and written
              /\ WriteArchive(PadBlock(SubSeq(data, inOff + 1, inOff + bytes_read)))
              /\ inOff' = inOff + bytes_read
              /\ UNCHANGED <<handles, pc, ret, mut, good, stepFailed, faults>>
           \/ /\ bytes_read > 0                  \* the fwrite fails
              /\ Fault
              /\ FailWriteFiles
              /\ UNCHANGED <<fs, inOff>>
           \/ /\ bytes_read = 0                  \* end of file
              /\ pc' = "wf_close_in"
              /\ UNCHANGED <<fs, handles, inOff, ret, mut, good, stepFailed,
                             faults>>
           \/ /\ bytes_read > 0                  \* the fread fails: it returns 0
              /\ Fault
              /\ stepFailed' = TRUE
              /\ pc' = "wf_close_in"
              /\ UNCHANGED <<fs, handles, inOff, ret, mut, good>>
    /\ UNCHANGED <<caller, argv, op, ptr, header, listed, exitCode, charSigned,
                   hdrAt, pre, codec>>

\* fclose(input_fp), then ptr = ptr->next
WfCloseIn ==
    /\ pc = "wf_close_in"
    /\ \/ /\ CloseAll({"input_fp"})
          /\ ptr' = ptr + 1
          /\ pc' = "wf_top"
          /\ UNCHANGED <<ret, mut, good, stepFailed, faults>>
       \/ /\ Fault
          /\ FailWriteFiles
          /\ UNCHANGED ptr
    /\ UNCHANGED <<fs, caller, argv, op, header, inOff, listed, exitCode,
                   charSigned, hdrAt, pre, codec>>

\* write_end_blocks, as create_archive and append_files_to_archive use it:
\* both writes succeed, or the first or the second fails and the caller
\* closes the archive and returns 1.
WriteEnd(next) ==
    /\ \/ /\ WriteArchive(EndBlocks)
          /\ pc' = next
          /\ UNCHANGED <<handles, ret, mut, good, stepFailed, faults>>
       \/ /\ Fault
          /\ stepFailed' = TRUE
          /\ CloseAll({"archive_fp"})
          /\ Return(1)
          /\ \/ UNCHANGED fs
             \/ WriteArchive(Zeros(BLOCK_SIZE))
    /\ UNCHANGED <<caller, argv, op, ptr, header, inOff, listed, exitCode,
                   charSigned, hdrAt, pre, codec>>

\* The final fclose(archive_fp) of create_archive and append_files_to_archive.
CloseArchive ==
    /\ CloseAll({"archive_fp"})
    /\ \/ /\ Return(0)
          /\ UNCHANGED <<stepFailed, faults>>
       \/ /\ Fault
          /\ stepFailed' = TRUE
          /\ Return(1)
    /\ UNCHANGED <<fs, caller, argv, op, ptr, header, inOff, listed, exitCode,
                   charSigned, hdrAt, pre, codec>>

\* ------------------------------------------------------------ create_archive
\* fopen(archive_name, "wb"): the file is created or truncated to nothing.
CrOpen ==
    /\ pc = "cr_open"
    /\ \/ /\ fs' = [fs EXCEPT ![ArchiveName] =
                       IF @.exists THEN [@ EXCEPT !.data = <<>>]
                       ELSE MkFile(<<>>, 420)]
          /\ Open("archive_fp", ArchiveName)
          /\ hdrAt' = {}
          /\ pc' = "wf_top"
          /\ UNCHANGED <<ret, mut, good, stepFailed, faults>>
       \/ /\ Fault
          /\ stepFailed' = TRUE
          /\ Return(1)
          /\ UNCHANGED <<fs, handles, hdrAt>>
    /\ UNCHANGED <<caller, argv, op, ptr, header, inOff, listed, exitCode,
                   charSigned, pre, codec>>

CrEnd == pc = "cr_end" /\ WriteEnd("cr_close")

CrClose == pc = "cr_close" /\ CloseArchive

\* ------------------------------------------------------------ append_files_to_archive
\* fopen(archive_name, "rb") to check that the archive exists.
ApCheck ==
    /\ pc = "ap_check"
    /\ IF CanOpenRead(fs, ArchiveName)
       THEN /\ Open("check_fp", ArchiveName)
            /\ pc' = "ap_close_check"
            /\ UNCHANGED <<ret, mut, good, stepFailed>>
       ELSE /\ stepFailed' = TRUE
            /\ Return(1)
            /\ UNCHANGED handles
    /\ UNCHANGED <<fs, caller, argv, op, ptr, header, inOff, listed, exitCode,
                   charSigned, hdrAt, pre, faults, codec>>

\* fclose(check_archive_fp); its result is stored and never looked at.
ApCloseCheck ==
    /\ pc = "ap_close_check"
    /\ CloseAll({"check_fp"})
    /\ pc' = "ap_trunc"
    /\ UNCHANGED <<fs, caller, argv, op, ptr, header, inOff, ret, listed, exitCode,
                   charSigned, mut, good, hdrAt, pre, stepFailed, faults, codec>>

\* remove_trailing_bytes(archive_name, 1024): stat, then truncate.
ApTrunc ==
    /\ pc = "ap_trunc"
    /\ LET file_size == TruncatedSize(Len(Archive.data),
                                      NUM_TRAILING_BLOCKS * BLOCK_SIZE)
       IN  \/ /\ Archive.exists
              /\ fs' = [fs EXCEPT ![ArchiveName].data = SubSeq(@, 1, file_size)]
              /\ hdrAt' = {k \in hdrAt : k < file_size \div BLOCK_SIZE}
              /\ pc' = "ap_reopen"
              /\ UNCHANGED <<ret, mut, good, stepFailed, faults>>
           \/ /\ Archive.exists                  \* truncate fails
              /\ Fault
              /\ stepFailed' = TRUE
              /\ Return(1)
              /\ UNCHANGED <<fs, hdrAt>>
           \/ /\ ~Archive.exists                 \* stat fails
              /\ stepFailed' = TRUE
              /\ Return(1)
              /\ UNCHANGED <<fs, hdrAt, faults>>
    /\ UNCHANGED <<handles, caller, argv, op, ptr, header, inOff, listed, exitCode,
                   charSigned, pre, codec>>

\* fopen(archive_name, "r+b")
ApReopen ==
    /\ pc = "ap_reopen"
    /\ \/ /\ Open("archive_fp", ArchiveName)
          /\ pc' = "ap_seek"
          /\ UNCHANGED <<ret, mut, good, stepFailed, faults>>
       \/ /\ Fault
          /\ stepFailed' = TRUE
          /\ Return(1)
          /\ UNCHANGED handles
    /\ UNCHANGED <<fs, caller, argv, op, ptr, header, inOff, listed, exitCode,
                   charSigned, hdrAt, pre, codec>>

\* fseek(archive_fp, 0, SEEK_END); on failure the stream is left open.
ApSeek ==
    /\ pc = "ap_seek"
    /\ \/ /\ pc' = "wf_top"
          /\ UNCHANGED <<ret, mut, good, stepFailed, faults>>
       \/ /\ Fault
          /\ stepFailed' = TRUE
          /\ Return(1)
    /\ UNCHANGED <<fs, handles, caller, argv, op, ptr, header, inOff, listed,
                   exitCode, charSigned, hdrAt, pre, codec>>

ApEnd == pc = "ap_end" /\ WriteEnd("ap_close")

ApClose == pc = "ap_close" /\ CloseArchive

\* ------------------------------------------------------------ get_archive_file_list
LsOpen ==
    /\ pc = "ls_open"
    /\ IF CanOpenRead(fs, ArchiveName)
       THEN /\ Open("list_fp", ArchiveName)
            /\ pc' = "ls_read"
            /\ UNCHANGED <<ret, mut, good>>
       ELSE /\ Return(1)
            /\ UNCHANGED handles
    /\ UNCHANGED <<fs, caller, argv, op, ptr, header, inOff, listed, exitCode,
                   charSigned, hdrAt, pre, stepFailed, faults, codec>>

\* fread(buffer, 1, 512, fp), then file_list_add(files, buffer): the buffer
\* is taken as a C string.  A read of nothing returns 1; fp stays open.
LsRead ==
    /\ pc = "ls_read"
    /\ LET read_result == Min(BLOCK_SIZE, Len(Archive.data) - inOff)
           buffer == SubSeq(Archive.data, inOff + 1, inOff + read_result)
       IN  IF read_result <= 0
           THEN /\ Return(1)
                /\ UNCHANGED <<listed, inOff>>
           ELSE /\ listed' = file_list_add(listed, CStr(buffer))
                /\ inOff' = inOff + read_result
                /\ pc' = "ls_seek"
                /\ UNCHANGED <<ret, mut, good>>
    /\ UNCHANGED <<fs, handles, caller, argv, op, ptr, header, exitCode,
                   charSigned, hdrAt, pre, stepFailed, faults, codec>>

\* The inner loop: fseek(fp, SEEK_CUR, BLOCK_SIZE), that is offset SEEK_CUR
\* and whence BLOCK_SIZE.  -1 returns 1 with fp left open; otherwise the loop
\* goes round again, fp never being NULL.
LsSeek ==
    /\ pc = "ls_seek"
    /\ IF fseek_result(SEEK_CUR, BLOCK_SIZE) = -1
       THEN Return(1)
       ELSE UNCHANGED <<pc, ret, mut, good>>
    /\ UNCHANGED <<fs, handles, caller, argv, op, ptr, header, inOff, listed,
                   exitCode, charSigned, hdrAt, pre, stepFailed, faults, codec>>

\* ------------------------------------------------------------ extract_files_from_archive
\* The body is `return 0;`.
Extract ==
    /\ pc = "ex"
    /\ Return(0)
    /\ UNCHANGED <<fs, handles, caller, argv, op, ptr, header, inOff, listed,
                   exitCode, charSigned, hdrAt, pre, stepFailed, faults, codec>>

\* ------------------------------------------------------------ main
\* main returns code: the process ends and its streams are gone.
Exit(code) ==
    /\ exitCode' = code
    /\ pc' = "done"
    /\ handles' = {}

\* A run of the command-line program.
CallMain(av) ==
    /\ pc = "done"
    /\ av.opt = "-a" /\ av.argc4 /\ av.f => FitsBound(av.files)
    /\ caller' = "main"
    /\ argv' = av
    /\ pc' = "m_start"
    /\ handles' = {}
    /\ op' = NoOp
    /\ ret' = 0
    /\ exitCode' = 0
    /\ stepFailed' = FALSE
    /\ UNCHANGED <<fs, ptr, header, inOff, listed, charSigned, mut, good, hdrAt,
                   pre, faults, codec>>

\* main up to the call of the operation.
MainStart ==
    /\ pc = "m_start"
    /\ CASE ~argv.argc4 ->                       \* usage, return 0
              /\ Exit(0)
              /\ UNCHANGED <<op, ptr, header, inOff, ret, listed, mut, pre,
                             stepFailed>>
         [] argv.argc4 /\ ~argv.f ->             \* "Expected -f flag"
              /\ Exit(1)
              /\ UNCHANGED <<op, ptr, header, inOff, ret, listed, mut, pre,
                             stepFailed>>
         [] argv.argc4 /\ argv.f /\ argv.opt = "-c" ->
              /\ Enter("create", argv.files, "cr_open")
              /\ UNCHANGED <<handles, exitCode>>
         [] argv.argc4 /\ argv.f /\ argv.opt = "-a" ->
              IF CanOpenRead(fs, ArchiveName)    \* fopen(archive_name, "r")
              THEN /\ Open("main_fp", ArchiveName)
                   /\ Enter("append", argv.files, "ap_check")
                   /\ UNCHANGED exitCode
              ELSE /\ Exit(1)
                   /\ UNCHANGED <<op, ptr, header, inOff, ret, listed, mut, pre,
                                  stepFailed>>
         [] argv.argc4 /\ argv.f /\ argv.opt = "-x" ->
              /\ Enter("extract", <<>>, "ex")
              /\ UNCHANGED <<handles, exitCode>>
         [] OTHER ->                             \* -t, -u, and the usage branch
              /\ Exit(0)
              /\ UNCHANGED <<op, ptr, header, inOff, ret, listed, mut, pre,
                             stepFailed>>
    /\ UNCHANGED <<fs, caller, argv, charSigned, good, hdrAt, faults, codec>>

\* main after the operation returned.
MainRet ==
    /\ pc = "m_ret"
    /\ CASE argv.opt = "-c" -> Exit(IF ret # 0 THEN 1 ELSE 0) /\ NoFault
         [] argv.opt = "-a" ->
              \/ Exit(0) /\ NoFault             \* fclose(archive_fp) is 0
              \/ Exit(1) /\ Fault               \* "Failed to close archive"
         [] OTHER -> Exit(0) /\ NoFault
    /\ UNCHANGED <<fs, caller, argv, op, ptr, header, inOff, ret, listed,
                   charSigned, mut, good, hdrAt, pre, stepFailed, codec>>

\* ------------------------------------------------------------ specification
Next ==
    \/ \E fl \in FileLists : CallCreate(fl)
    \/ \E fl \in FileLists : CallAppend(fl)
    \/ CallList
    \/ CallExtract
    \/ \E av \in Argvs : CallMain(av)
    \/ \E f \in InputNames : Unlink(f)
    \/ WfTop \/ WfFill \/ WfHeader \/ WfOpen \/ WfCopy \/ WfCloseIn
    \/ CrOpen \/ CrEnd \/ CrClose
    \/ ApCheck \/ ApCloseCheck \/ ApTrunc \/ ApReopen \/ ApSeek \/ ApEnd \/ ApClose
    \/ LsOpen \/ LsRead \/ LsSeek
    \/ Extract
    \/ MainStart \/ MainRet

Spec == Init /\ [][Next]_vars

\* ------------------------------------------------------------ header codec runs
\* fill_tar_header as a function: each run takes one file name and one stat
\* result, under either signedness of char, and fills one header.
HighName == [i \in 1..NAME_LEN |-> 128]

HeaderInputs ==
    {[name |-> n, st |-> [mode |-> m, uid |-> u, gid |-> u, size |-> sz, mtime |-> t]] :
        n \in {FileA, FileE, HighName}, m \in {420, 493}, u \in {0, 1000},
        sz \in {0, 5, 600}, t \in {0, 1700000000}}

HInit ==
    /\ fs = InitialFiles
    /\ handles = {}
    /\ pc = "codec"
    /\ caller = "env"
    /\ argv = NoArgv
    /\ op = NoOp
    /\ ptr = 1
    /\ header = <<>>
    /\ inOff = 0
    /\ ret = 0
    /\ listed = <<>>
    /\ exitCode = 0
    /\ charSigned \in BOOLEAN
    /\ mut = [fn |-> "none", files |-> <<>>, ret |-> 0, returned |-> FALSE]
    /\ good = FALSE
    /\ hdrAt = {}
    /\ pre = <<>>
    /\ stepFailed = FALSE
    /\ faults = 0
    /\ hdrIn \in HeaderInputs
    /\ hdrOut = <<>>

HFill ==
    /\ pc = "codec"
    /\ hdrOut = <<>>
    /\ hdrOut' = fill_tar_header(hdrIn.name, hdrIn.st, UserName, UserName,
                                 charSigned)
    /\ UNCHANGED <<fs, handles, pc, caller, argv, op, ptr, header, inOff, ret,
                   listed, exitCode, charSigned, mut, good, hdrAt, pre,
                   stepFailed, faults, hdrIn>>

HNext == HFill

SpecHeader == HInit /\ [][HNext]_vars

\* ------------------------------------------------------------ reading an archive
\* Block k (from 0) of the bytes d.
Blk(d, k) == SubSeq(d, k * BLOCK_SIZE + 1, (k + 1) * BLOCK_SIZE)

NBlocks(d) == Len(d) \div BLOCK_SIZE

\* The number an octal field holds.
RECURSIVE OctalValue(_, _)
OctalValue(digits, n) ==
    IF n = 0 THEN 0 ELSE 8 * OctalValue(digits, n - 1) + (digits[n] - 48)

ParseOctal(field) == LET d == CStr(field) IN OctalValue(d, Len(d))

\* The walk of section 4.3 over the bytes d from block k on: a header, its
\* size rounded up to blocks skipped, and so on until two zero blocks end it.
\* ok is FALSE when the bytes are not an archive.
RECURSIVE Walk(_, _)
Walk(d, k) ==
    IF k + 1 > NBlocks(d) THEN [ok |-> FALSE, entries |-> <<>>]
    ELSE IF IsZero(Blk(d, k))
    THEN [ok |-> k + 2 = NBlocks(d) /\ IsZero(Blk(d, k + 1)), entries |-> <<>>]
    ELSE LET h    == Blk(d, k)
             size == ParseOctal(Field(h, "size"))
             next == k + 1 + BlocksFor(size)
         IN  IF CStr(Field(h, "magic")) # MAGIC \/ next > NBlocks(d)
             THEN [ok |-> FALSE, entries |-> <<>>]
             ELSE LET rest == Walk(d, next)
                      e == [name |-> CStr(Field(h, "name")),
                            mode |-> ParseOctal(Field(h, "mode")),
                            data |-> SubSeq(d, (k + 1) * BLOCK_SIZE + 1,
                                            (k + 1) * BLOCK_SIZE + size)]
                  IN  [ok |-> rest.ok, entries |-> <<e>> \o rest.entries]

ValidArchive(d) == Walk(d, 0).ok
Entries(d) == Walk(d, 0).entries
Names(es) == [i \in 1..Len(es) |-> es[i].name]

\* From byte offset off on, d is the entries of the files fl (as they are on
\* disk) in order, each a header block naming the file and its payload padded
\* with zero bytes to whole blocks, and then the two zero blocks.
RECURSIVE LayoutFrom(_, _, _, _)
LayoutFrom(d, off, fl, i) ==
    IF i > Len(fl)
    THEN /\ Len(d) = off + 2 * BLOCK_SIZE
         /\ IsZero(SubSeq(d, off + 1, Len(d)))
    ELSE LET n   == Len(fs[fl[i]].data)
             pay == off + BLOCK_SIZE
             end == pay + BLOCK_SIZE * BlocksFor(n)
         IN  /\ Len(d) >= end
             /\ CStr(Field(SubSeq(d, off + 1, pay), "name")) = fl[i]
             /\ SubSeq(d, pay + 1, pay + n) = fs[fl[i]].data
             /\ IsZero(SubSeq(d, pay + n + 1, end))
             /\ LayoutFrom(d, end, fl, i + 1)

AllOnDisk(fl) == \A i \in 1..Len(fl) : fs[fl[i]].exists

\* A library function has returned, and nothing has happened since.
Returned == pc \in {"done", "m_ret"} /\ op.fn # "none"

\* ------------------------------------------------------------ claims
\* C1: when create_archive has returned 0 for the files fl, the archive is, in
\* the order of fl, a header block per file and ceil(N/512) payload blocks
\* whose tail beyond the N bytes is zero, then the two zero blocks; its size
\* is the sum of 512 + 512*ceil(N/512) over the files, plus 1024.
ClaimC1 ==
    (Returned /\ op.fn = "create" /\ ret = 0) =>
        /\ Len(Archive.data) = EntryBytes(fs, op.files) + 2 * BLOCK_SIZE
        /\ LayoutFrom(Archive.data, 0, op.files, 1)

\* The same when no step of the run failed.
CreateLayoutWithoutFailure ==
    (Returned /\ op.fn = "create" /\ ret = 0 /\ ~stepFailed) =>
        /\ Len(Archive.data) = EntryBytes(fs, op.files) + 2 * BLOCK_SIZE
        /\ LayoutFrom(Archive.data, 0, op.files, 1)

CreateLayoutReached ==
    /\ Returned /\ op.fn = "create" /\ ret = 0 /\ ~stepFailed
    /\ op.files = <<FileA, FileB>>
    /\ Len(Archive.data) = 2560

\* C2: when extract_files_from_archive has returned 0 on an archive that
\* create_archive produced, every entry of the archive is a file on disk with
\* the entry's bytes (the declared size of them) and its permission bits.
ClaimC2 ==
    (Returned /\ op.fn = "extract" /\ ret = 0 /\ mut.fn = "create" /\ mut.returned
        /\ mut.ret = 0
        /\ ValidArchive(Archive.data)) =>
        \A i \in 1..Len(Entries(Archive.data)) :
            LET e == Entries(Archive.data)[i]
            IN  /\ fs[e.name].exists
                /\ fs[e.name].data = e.data
                /\ fs[e.name].mode % 4096 = e.mode

\* C3: when append_files_to_archive has returned 0 on a valid archive that
\* create and appends returning 0 produced (in an environment that never
\* interfered), the bytes before the old footer
\* are unchanged, the new entries and a footer follow them, the size is the
\* old size - 1024 + the entries' bytes + 1024, and get_archive_file_list then
\* returns 0 with the old names followed by the new ones.
ClaimC3 ==
    (Returned /\ good /\ mut.fn = "append" /\ mut.returned /\ mut.ret = 0
        /\ ValidArchive(pre) /\ faults = 0 /\ Entries(pre) # <<>> /\ mut.files # <<>>
        /\ AllOnDisk(mut.files) /\ op.fn \in {"append", "list"}) =>
        LET kept == Len(pre) - 2 * BLOCK_SIZE
        IN  /\ Len(Archive.data) =
                   kept + EntryBytes(fs, mut.files) + 2 * BLOCK_SIZE
            /\ SubSeq(Archive.data, 1, kept) = SubSeq(pre, 1, kept)
            /\ LayoutFrom(Archive.data, kept, mut.files, 1)
            /\ op.fn = "list" =>
                   /\ ret = 0
                   /\ listed = Names(Entries(pre)) \o mut.files

\* The bytes and the size of C3, when no step of the append failed.
AppendLayoutWithoutFailure ==
    (Returned /\ good /\ op.fn = "append" /\ ret = 0 /\ ValidArchive(pre)
        /\ ~stepFailed) =>
        LET kept == Len(pre) - 2 * BLOCK_SIZE
        IN  /\ Len(Archive.data) =
                   kept + EntryBytes(fs, op.files) + 2 * BLOCK_SIZE
            /\ SubSeq(Archive.data, 1, kept) = SubSeq(pre, 1, kept)
            /\ LayoutFrom(Archive.data, kept, op.files, 1)
            /\ Names(Entries(Archive.data)) = Names(Entries(pre)) \o op.files

\* Appending the 600-byte file to the 2560-byte archive gives
\* 2560 - 1024 + 512 + 1024 + 1024 = 4096 bytes.
AppendExampleSize ==
    (Returned /\ op.fn = "append" /\ ret = 0 /\ ~stepFailed /\ Len(pre) = 2560
        /\ op.files = <<FileC>>) => Len(Archive.data) = 4096

AppendLayoutReached ==
    /\ Returned /\ good /\ op.fn = "append" /\ ret = 0 /\ ~stepFailed
    /\ Len(pre) = 2560
    /\ op.files = <<FileC>>
    /\ Len(Archive.data) = 4096

\* C4: when get_archive_file_list has returned on a valid archive (one that a
\* create and appends returning 0 left), it returned 0 and the list is the
\* names of the entry headers, in archive order.
ClaimC4 ==
    (Returned /\ op.fn = "list" /\ good /\ ValidArchive(Archive.data)) =>
        /\ ret = 0
        /\ listed = Names(Entries(Archive.data))

ClaimC6 ==
    op.fn = "append" /\ pc \notin {"done", "m_ret"} =>
        /\ pc = "ap_trunc" => OnArchive = {}
        /\ Cardinality(OnArchive) <= 1

\* C7: the command-line program returns 0 exactly when the invocation was
\* well formed and the operation it asked for ran and returned 0.
ClaimC7 ==
    (pc = "done" /\ caller = "main") =>
        (exitCode = 0 <=>
            /\ argv.argc4 /\ argv.f
            /\ argv.opt \in {"-c", "-a", "-t", "-u", "-x"}
            /\ op.fn # "none"
            /\ ret = 0)

\* C8: append_files_to_archive on a path that does not exist returns non-zero
\* from its first step: nothing is truncated or created, the file system and
\* the open streams are as before.
ClaimC8 ==
    [][(pc = "ap_check" /\ ~Archive.exists) =>
          /\ pc' \in {"done", "m_ret"}
          /\ ret' # 0
          /\ fs' = fs
          /\ handles' = handles]_vars

WitnessC8 ==
    /\ pc = "done" /\ op.fn = "append" /\ op.files = <<FileC>>
    /\ ret = 1
    /\ ~Archive.exists

\* The sum of the bytes h[lo..hi], each a value in 0..255.
RECURSIVE ByteSum(_, _, _)
ByteSum(h, lo, hi) ==
    IF lo > hi THEN 0
    ELSE IF lo = hi THEN h[lo]
    ELSE ByteSum(h, lo, (lo + hi) \div 2) + ByteSum(h, (lo + hi) \div 2 + 1, hi)

\* C9: the chksum field of a header fill_tar_header produced is the 7-digit
\* zero-padded octal of the sum of the 512 bytes, each in 0..255, the chksum
\* bytes counted as spaces, followed by NUL.
ClaimC9 ==
    hdrOut # <<>> =>
        LET sum == ByteSum(hdrOut, 1, 148) + 8 * 32 + ByteSum(hdrOut, 157, 512)
        IN  Field(hdrOut, "chksum") = FormatOctal(sum, 7) \o <<0>>

\* The same for the builds where char is unsigned, and the headers of names
\* without a byte >= 0x80.
ChecksumOfUnsignedBytes ==
    (hdrOut # <<>> /\ (~charSigned \/ \A i \in 1..Len(hdrIn.name) : hdrIn.name[i] < 128)) =>
        LET sum == ByteSum(hdrOut, 1, 148) + 8 * 32 + ByteSum(hdrOut, 157, 512)
        IN  Field(hdrOut, "chksum") = FormatOctal(sum, 7) \o <<0>>

\* The number of blocks between the header at block k and the next header
\* (or the two end blocks) is the one the header's size field asks for.
SizeAgrees(d, k) ==
    LET later == {j \in hdrAt : j > k}
        next  == IF later = {} THEN NBlocks(d) - NUM_TRAILING_BLOCKS
                 ELSE CHOOSE j \in later : \A l \in later : j <= l
    IN  next - k - 1 = BlocksFor(ParseOctal(Field(Blk(d, k), "size")))

\* C10: a create or append in which a step failed returns non-zero, and one
\* that returns 0 leaves no header whose size disagrees with the payload
\* blocks after it.
ClaimC10 ==
    (Returned /\ op.fn \in {"create", "append"}) =>
        /\ stepFailed => ret # 0
        /\ ret = 0 /\ good => \A k \in hdrAt : SizeAgrees(Archive.data, k)

====
